---- MODULE Spec2Model ----
(***************************************************************************)
(* Model of sync_media.py: the Control object that stages media from       *)
(* ../blobs into ../akamai and mirrors the staging area to the Akamai host. *)
(* One run of the script is one behaviour.  The file system, the process   *)
(* environment, the command line and the results of the three external     *)
(* commands (ssh-agent, ssh-add, rsync) are the inputs.                    *)
(***************************************************************************)
EXTENDS Integers, Sequences, FiniteSets, TLC

\* Largest number of entries in ../blobs.
MaxBlobs == 2

\* Class attributes of Control.
IMAGE_WIDTHS == <<571, 750>>
JPEG_QUALITY == 80
KEYS == <<"SSH_AUTH_SOCK", "SSH_AGENT_PID">>

\* Significand width of a Python float (IEEE 754 binary64).
MANT == 53

None == "None"

(***************************************************************************)
(* Python float arithmetic, as used by `ratio = image.height / image.width`*)
(* and `int(round(width * ratio))`.  A float is [m |-> bits, e |-> exp]:    *)
(* a significand of MANT bits, most significant first, times 2^e.  Bit     *)
(* strings stand for the wide integers.  Valid for operands below 2^15 and *)
(* multipliers below 2^10, which covers every image size used here.        *)
(***************************************************************************)
Limb == 2^20

RECURSIVE BitsToInt(_)
BitsToInt(bits) ==
    IF Len(bits) = 0 THEN 0
    ELSE IF Len(bits) = 1 THEN bits[1]
    ELSE LET h == Len(bits) \div 2
         IN BitsToInt(SubSeq(bits, 1, h)) * 2^(Len(bits) - h)
            + BitsToInt(SubSeq(bits, h + 1, Len(bits)))

ToBits(n, w) == [i \in 1..w |-> (n \div 2^(w - i)) % 2]

BitLen(n) == CHOOSE k \in 0..30 : n < 2^k /\ (k = 0 \/ 2^(k - 1) <= n)

IntBits(n) == ToBits(n, BitLen(n))

Increment(bits) ==
    IF \A i \in 1..Len(bits) : bits[i] = 1
    THEN <<1>> \o [i \in 1..Len(bits) |-> 0]
    ELSE LET p == CHOOSE i \in 1..Len(bits) :
                      bits[i] = 0 /\ \A j \in (i + 1)..Len(bits) : bits[j] = 1
         IN [i \in 1..Len(bits) |->
                IF i < p THEN bits[i] ELSE IF i = p THEN 1 ELSE 0]

\* The top `keep` bits of a bit string, rounded to nearest, ties to even.
RoundHalfEven(bits, keep) ==
    IF keep < 0 THEN <<>>
    ELSE IF keep >= Len(bits) THEN bits
    ELSE LET top == SubSeq(bits, 1, keep)
             guard == bits[keep + 1]
             sticky == \E i \in (keep + 2)..Len(bits) : bits[i] = 1
             odd == keep > 0 /\ bits[keep] = 1
         IN IF guard = 1 /\ (sticky \/ odd) THEN Increment(top) ELSE top

\* Round a wide integer times 2^e to a float.
Normalize(bits, e) ==
    IF Len(bits) <= MANT THEN [m |-> bits, e |-> e]
    ELSE LET r == RoundHalfEven(bits, MANT)
             d == Len(bits) - MANT
         IN IF Len(r) > MANT
            THEN [m |-> SubSeq(r, 1, MANT), e |-> e + d + 1]
            ELSE [m |-> r, e |-> e + d]

RECURSIVE Remainders(_, _, _)
\* The n successive remainders of the long division of r by d, r < d:
\* r, 2r mod d, 4r mod d, ...
Remainders(r, d, n) ==
    IF n = 1 THEN <<r>>
    ELSE LET h == n \div 2
             first == Remainders(r, d, h)
         IN first \o Remainders((2 * first[h]) % d, d, n - h)

\* a / b for positive ints: the correctly rounded quotient (int.__truediv__).
FloatDiv(a, b) ==
    LET k == CHOOSE s \in 0..30 :
                 /\ 2^s >= (b + a - 1) \div a
                 /\ (s = 0 \/ 2^(s - 1) < (b + a - 1) \div a)
        n == a * 2^k
        q == IntBits(n \div b)
        rem == Remainders(n % b, b, MANT + 2)
        frac == [i \in 1..(MANT + 1) |-> (2 * rem[i]) \div b]
        sticky == IF rem[MANT + 2] = 0 THEN 0 ELSE 1
    IN Normalize(q \o frac \o <<sticky>>, 0 - k - (MANT + 2))

\* The exact product of a MANT-bit string and a small int, in limbs of 20 bits.
MulBits(bits, t) ==
    LET n == Len(bits)
        lo == t * BitsToInt(SubSeq(bits, n - 19, n))
        mid == t * BitsToInt(SubSeq(bits, n - 39, n - 20))
               + lo \div Limb
        hi == t * BitsToInt(SubSeq(bits, 1, n - 40)) + mid \div Limb
    IN IntBits(hi) \o ToBits(mid % Limb, 20) \o ToBits(lo % Limb, 20)

\* t * f for an int t and a float f: the correctly rounded product.
FloatMul(t, f) == Normalize(MulBits(f.m, t), f.e)

\* int(round(f)): float.__round__ rounds ties to even.
PyRound(f) ==
    IF f.e >= 0 THEN BitsToInt(f.m) * 2^(f.e)
    ELSE BitsToInt(RoundHalfEven(f.m, Len(f.m) + f.e))

(***************************************************************************)
(* Inputs: the command line, ../blobs, ../akamai as the previous run left  *)
(* it, the environment and .secrets.json.                                  *)
(***************************************************************************)
Host == "media.example.net"

\* sys.argv, as parse_args() sees it.  host = None: --host was not given.
Argvs ==
    [host : {Host}, checksums : BOOLEAN, staged : BOOLEAN, verbose : BOOLEAN]
    \cup {[host |-> None, checksums |-> FALSE, staged |-> FALSE, verbose |-> FALSE]}

\* A directory entry of ../blobs.  The stem is a string of characters;
\* readable: Image.open() can decode the file.
Audio(stem) ==
    [stem |-> stem, suffix |-> ".mp3", readable |-> TRUE,
     mode |-> "", width |-> 0, height |-> 0]

Picture(stem, suffix, readable, mode, width, height) ==
    [stem |-> stem, suffix |-> suffix, readable |-> readable,
     mode |-> mode, width |-> width, height |-> height]

Blobs ==
    { Audio(<<"1">>),
      Audio(<<"0", "1">>),
      Picture(<<"c", "o", "v", "e", "r">>, ".png", TRUE, "RGB", 800, 600),
      Picture(<<"1">>, ".png", TRUE, "P", 1000, 500),
      Picture(<<"2">>, ".jpg", TRUE, "RGB", 1142, 39),
      Picture(<<"3">>, ".gif", TRUE, "RGB", 750, 500),
      Picture(<<"4">>, ".png", TRUE, "RGBA", 400, 300),
      Picture(<<"5">>, ".png", FALSE, "", 0, 0) }

\* glob("*") yields each entry once, in no particular order.
Listings ==
    UNION { { l \in [1..n -> Blobs] : \A i, j \in 1..n : i # j => l[i] # l[j] }
            : n \in 0..MaxBlobs }

\* A file of the staging area: <dir>/<doc_id>.mp3, <dir>/<doc_id>.jpg
\* (width 0) or <dir>/<doc_id>-<width>.jpg, with what it holds: the blob it
\* was made from, the run that made it, and for a JPEG its size and mode.
File(dir, doc_id, width, run, src, w, h, mode, quality) ==
    [dir |-> dir, doc_id |-> doc_id, width |-> width, run |-> run,
     src |-> src, w |-> w, h |-> h, mode |-> mode, quality |-> quality]

SameName(f, g) == f.dir = g.dir /\ f.doc_id = g.doc_id /\ f.width = g.width

NoArea == [exists |-> FALSE, dirs |-> {}, files |-> {}]

OldAudio == Audio(<<"9">>)
OldPicture == Picture(<<"9">>, ".png", TRUE, "RGB", 640, 480)

\* ../akamai before the run: absent, or as an earlier run staged it.
PriorAreas ==
    { NoArea,
      [exists |-> TRUE, dirs |-> {"audio", "images"},
       files |-> { File("audio", 9, 0, "previous", OldAudio, 0, 0, "", 0),
                   File("images", 9, 0, "previous", OldPicture, 640, 480, "RGB", JPEG_QUALITY),
                   File("images", 9, 571, "previous", OldPicture, 571, 428, "RGB", JPEG_QUALITY),
                   File("images", 9, 750, "previous", OldPicture, 640, 480, "RGB", JPEG_QUALITY) }] }

\* The environment and a JSON object: functions from the names that are set
\* to their values (strings of characters).
EnvKey == <<"k", "1">>
FileKey == <<"k", "2">>

Empty == [n \in {} |-> <<>>]

Environs ==
    { Empty,
      [n \in {"AKAMAI_KEY"} |-> <<>>],
      [n \in {"AKAMAI_KEY"} |-> EnvKey] }

\* .secrets.json: absent, not JSON, or a JSON object with or without the
\* AKAMAI_KEY field.  The broken files are taken with AKAMAI_KEY unset.
NoSecrets == [exists |-> FALSE, json |-> FALSE, object |-> Empty]
KeySecrets == [exists |-> TRUE, json |-> TRUE, object |-> [n \in {"AKAMAI_KEY"} |-> FileKey]]

SecretsFiles ==
    { NoSecrets,
      [exists |-> TRUE, json |-> FALSE, object |-> Empty],
      [exists |-> TRUE, json |-> TRUE, object |-> Empty],
      KeySecrets }

VARIABLES
    argv,         \* the command line
    blobs,        \* the listing of ../blobs
    staging,      \* ../akamai
    before,       \* ../akamai as the run found it
    environ,      \* os.environ
    secrets,      \* .secrets.json
    cached,       \* names of the cached_property values already computed
    count,        \* Control.count
    rmtrees,      \* number of rmtree() calls made
    entry,        \* position of the stage loop in the listing
    procs,        \* the subprocess.run() calls made, in order
    log,          \* records written to sync-media.log
    stderr,       \* what was written to the console
    error,        \* the exception raised, "" if none
    pc,           \* where the run is
    exit_status   \* the exit status of the process, -1 while it runs

vars == <<argv, blobs, staging, before, environ, secrets, cached, count,
          rmtrees, entry, procs, log, stderr, error, pc, exit_status>>

Init ==
    /\ argv \in Argvs
    /\ blobs \in Listings
    /\ staging \in PriorAreas
    /\ before = staging
    /\ environ \in Environs
    /\ secrets \in IF "AKAMAI_KEY" \in DOMAIN environ
                    THEN {NoSecrets, KeySecrets}
                    ELSE SecretsFiles
    /\ cached = {}
    /\ count = 0
    /\ rmtrees = 0
    /\ entry = 1
    /\ procs = <<>>
    /\ log = <<>>
    /\ stderr = <<>>
    /\ error = ""
    /\ pc = "start"
    /\ exit_status = -1

(***************************************************************************)
(* int(path.stem) for a stem of decimal digits; any other stem raises      *)
(* ValueError.  (Signs, blanks and underscores are not used in the stems.) *)
(***************************************************************************)
Digits == <<"0", "1", "2", "3", "4", "5", "6", "7", "8", "9">>

IsInt(stem) ==
    /\ Len(stem) > 0
    /\ \A i \in 1..Len(stem) : \E d \in 1..Len(Digits) : Digits[d] = stem[i]

RECURSIVE int(_)
int(stem) ==
    IF Len(stem) = 0 THEN 0
    ELSE 10 * int(SubSeq(stem, 1, Len(stem) - 1))
         + (CHOOSE d \in 1..Len(Digits) : Digits[d] = stem[Len(stem)]) - 1

(***************************************************************************)
(* The part of the state the stage loop works on, as one record `self`:    *)
(* [staging, cached, rmtrees, exc]; exc is the exception raised, "" if     *)
(* none.  Once exc is set the later steps of the loop body do nothing.     *)
(***************************************************************************)

\* Control.akamai as a plain property: every access removes ../akamai.
akamai_uncached(self) ==
    [staging |-> IF self.staging.exists THEN NoArea ELSE self.staging,
     cached |-> self.cached \cup {"akamai"},
     rmtrees |-> IF self.staging.exists THEN self.rmtrees + 1 ELSE self.rmtrees,
     exc |-> self.exc]

\* Control.akamai: the first access removes ../akamai if it exists.
akamai(self) ==
    IF "akamai" \in self.cached THEN self
    ELSE [staging |-> IF self.staging.exists THEN NoArea ELSE self.staging,
          cached |-> self.cached \cup {"akamai"},
          rmtrees |-> IF self.staging.exists THEN self.rmtrees + 1 ELSE self.rmtrees,
          exc |-> self.exc]

\* Control.audio and Control.images: the first access creates the directory
\* (mkdir(parents=True) raises FileExistsError if it is already there).
subdir(self, name) ==
    IF name \in self.cached THEN self
    ELSE LET top == akamai(self)
         IN IF name \in top.staging.dirs
            THEN [top EXCEPT !.exc = "FileExistsError"]
            ELSE [top EXCEPT !.staging.exists = TRUE,
                             !.staging.dirs = @ \cup {name},
                             !.cached = @ \cup {name}]

audio(self) == subdir(self, "audio")

images(self) == subdir(self, "images")

\* newpath.hardlink_to(path): fails if newpath exists.
hardlink_to(self, file) ==
    IF self.exc # "" THEN self
    ELSE IF \E f \in self.staging.files : SameName(f, file)
    THEN [self EXCEPT !.exc = "FileExistsError"]
    ELSE [self EXCEPT !.staging.files = @ \cup {file}]

\* image.save(newpath, "JPEG", quality=...): the JPEG encoder refuses a mode
\* with an alpha channel or a palette; the file replaces one of that name.
JpegModes == {"RGB", "L", "CMYK"}

save(self, file) ==
    IF self.exc # "" THEN self
    ELSE IF file.mode \notin JpegModes
    THEN [self EXCEPT !.exc = "OSError"]
    ELSE [self EXCEPT !.staging.files =
                          {f \in @ : ~SameName(f, file)} \cup {file}]

\* height = int(round(width * ratio)), ratio = image.height / image.width
scaled_height(width, image) ==
    PyRound(FloatMul(width, FloatDiv(image.height, image.width)))

RECURSIVE save_widths(_, _, _, _, _)
\* for width in self.IMAGE_WIDTHS[i:]: ... scaled_image.save(newpath, ...)
save_widths(self, path, doc_id, mode, i) ==
    IF i > Len(IMAGE_WIDTHS) THEN self
    ELSE LET width == IMAGE_WIDTHS[i]
             size == IF width < path.width
                     THEN <<width, scaled_height(width, path)>>
                     ELSE <<path.width, path.height>>
             newpath == File("images", doc_id, width, "current", path,
                             size[1], size[2], mode, JPEG_QUALITY)
         IN save_widths(save(self, newpath), path, doc_id, mode, i + 1)

\* The body of the loop of Control.stage for one entry of ../blobs.
stage_entry(self, path) ==
    IF ~IsInt(path.stem) THEN [self EXCEPT !.exc = "ValueError"]
    ELSE LET doc_id == int(path.stem)
         IN IF path.suffix = ".mp3"
            THEN hardlink_to(audio(self),
                             File("audio", doc_id, 0, "current", path, 0, 0, "", 0))
            ELSE IF ~path.readable
            THEN [self EXCEPT !.exc = "UnidentifiedImageError"]
            ELSE LET mode == IF path.mode = "P" THEN "RGB" ELSE path.mode
                     full == File("images", doc_id, 0, "current", path,
                                  path.width, path.height, mode, JPEG_QUALITY)
                 IN save_widths(save(images(self), full), path, doc_id, mode, 1)

Info(msg) == [level |-> "INFO", msg |-> msg, n |-> count]

Write(text) == IF argv.verbose THEN Append(stderr, text) ELSE stderr

(***************************************************************************)
(* The run.                                                                *)
(***************************************************************************)

\* Control.run without the test of self.staged before self.stage().
RunStagesAnyway ==
    /\ pc = "start"
    /\ IF argv.host = None
       THEN /\ pc' = "exit"
            /\ exit_status' = 2
            /\ error' = "SystemExit"
            /\ stderr' = Append(stderr, "usage")
       ELSE /\ pc' = "stage"
            /\ UNCHANGED <<exit_status, error, stderr>>
    /\ UNCHANGED <<argv, blobs, staging, before, environ, secrets, cached,
                   count, rmtrees, entry, procs, log>>

\* Control.run up to the choice of the first phase.  parse_args() ends the
\* process with status 2 when --host is missing.
Run ==
    /\ pc = "start"
    /\ IF argv.host = None
       THEN /\ pc' = "exit"
            /\ exit_status' = 2
            /\ error' = "SystemExit"
            /\ stderr' = Append(stderr, "usage")
       ELSE /\ pc' = IF argv.staged THEN "sync" ELSE "stage"
            /\ UNCHANGED <<exit_status, error, stderr>>
    /\ UNCHANGED <<argv, blobs, staging, before, environ, secrets, cached,
                   count, rmtrees, entry, procs, log>>

\* One iteration of the loop of Control.stage.
StageEntry ==
    /\ pc = "stage"
    /\ entry <= Len(blobs)
    /\ LET self == stage_entry([staging |-> staging, cached |-> cached,
                                rmtrees |-> rmtrees, exc |-> ""], blobs[entry])
       IN /\ staging' = self.staging
          /\ cached' = self.cached
          /\ rmtrees' = self.rmtrees
          /\ IF self.exc # ""
             THEN /\ error' = self.exc
                  /\ pc' = "except"
                  /\ UNCHANGED <<count, entry, stderr>>
             ELSE /\ count' = count + 1
                  /\ entry' = entry + 1
                  /\ stderr' = Write("staged files")
                  /\ UNCHANGED <<error, pc>>
    /\ UNCHANGED <<argv, blobs, before, environ, secrets, procs, log, exit_status>>

\* The end of Control.stage, after the last entry.
StageDone ==
    /\ pc = "stage"
    /\ entry > Len(blobs)
    /\ log' = Append(log, Info("staged"))
    /\ stderr' = Write("done")
    /\ pc' = "sync"
    /\ UNCHANGED <<argv, blobs, staging, before, environ, secrets, cached,
                   count, rmtrees, entry, procs, error, exit_status>>

(***************************************************************************)
(* The sync phase.  A line of text is a string of characters; the two      *)
(* variable names, and the words that never matter, are single characters. *)
(***************************************************************************)

Proc(args, input, returncode) ==
    [argv |-> args, input |-> input, returncode |-> returncode]

RECURSIVE split(_, _)
\* str.split(sep)
split(line, sep) ==
    IF \A i \in 1..Len(line) : line[i] # sep THEN <<line>>
    ELSE LET p == CHOOSE i \in 1..Len(line) :
                      line[i] = sep /\ \A j \in 1..(i - 1) : line[j] # sep
         IN <<SubSeq(line, 1, p - 1)>> \o split(SubSeq(line, p + 1, Len(line)), sep)

\* line.startswith(key)
startswith(line, key) == Len(line) > 0 /\ line[1] = key

RECURSIVE set_keys(_, _, _)
\* for key in self.KEYS[i:]: if line.startswith(key): environ[key] = ...
set_keys(res, line, i) ==
    IF i > Len(KEYS) \/ res.exc # "" THEN res
    ELSE IF ~startswith(line, KEYS[i]) THEN set_keys(res, line, i + 1)
    ELSE LET parts == split(split(line, ";")[1], "=")
         IN IF Len(parts) < 2
            THEN [res EXCEPT !.exc = "IndexError"]
            ELSE set_keys([res EXCEPT !.environ = (KEYS[i] :> parts[2]) @@ @],
                          line, i + 1)

RECURSIVE start_ssh_agent(_, _)
\* Control.__start_ssh_agent on the lines of the agent's standard output
start_ssh_agent(res, lines) ==
    IF Len(lines) = 0 \/ res.exc # "" THEN res
    ELSE start_ssh_agent(set_keys(res, Head(lines), 1), Tail(lines))

SockLine == <<"SSH_AUTH_SOCK", "=", "/tmp/agent.1", ";", " export SSH_AUTH_SOCK", ";">>
PidLine == <<"SSH_AGENT_PID", "=", "2", ";", " export SSH_AGENT_PID", ";">>
EchoLine == <<"echo Agent pid 2", ";">>

\* What ssh-agent -s may print.
AgentOutputs ==
    { <<SockLine, PidLine, EchoLine>>,
      <<>>,
      <<<<"ssh-agent: unknown option">>>>,
      <<<<"SSH_AUTH_SOCK">>>>,
      <<SockLine, <<"SSH_AGENT_PID", ";", "=", "2">>>>,
      <<<<"SSH_AUTH_SOCK", "=", "/tmp/a", "=", "b", ";">>>>,
      <<<<"SSH_AGENT_PID", "S", "=", "7", ";">>>> }

\* Control.sync without the call of __add_key_to_agent.
StartAgentSkipsKey ==
    /\ pc = "sync"
    /\ \E stdout \in AgentOutputs :
         LET res == start_ssh_agent([environ |-> environ, exc |-> ""], stdout)
         IN /\ environ' = res.environ
            /\ error' = res.exc
            /\ pc' = IF res.exc # "" THEN "except" ELSE "rsync"
    /\ procs' = Append(procs, Proc(<<"ssh-agent", "-s">>, <<>>, 0))
    /\ log' = Append(log, Info("syncing"))
    /\ stderr' = Write("syncing")
    /\ UNCHANGED <<argv, blobs, staging, before, secrets, cached, count,
                   rmtrees, entry, exit_status>>

\* The start of Control.sync, up to and including __start_ssh_agent.
StartAgent ==
    /\ pc = "sync"
    /\ \E stdout \in AgentOutputs :
         LET res == start_ssh_agent([environ |-> environ, exc |-> ""], stdout)
         IN /\ environ' = res.environ
            /\ error' = res.exc
            /\ pc' = IF res.exc # "" THEN "except" ELSE "add_key"
    /\ procs' = Append(procs, Proc(<<"ssh-agent", "-s">>, <<>>, 0))
    /\ log' = Append(log, Info("syncing"))
    /\ stderr' = Write("syncing")
    /\ UNCHANGED <<argv, blobs, staging, before, secrets, cached, count,
                   rmtrees, entry, exit_status>>

\* dict.get(name), with None and "" both given as the empty string
get(dict, name) == IF name \in DOMAIN dict THEN dict[name] ELSE <<>>

\* Control.key_data without the final `if not key: raise`.
key_data_unchecked(env, file) ==
    LET key == get(env, "AKAMAI_KEY")
    IN IF key # <<>> THEN [key |-> key, exc |-> ""]
       ELSE IF file.exists /\ ~file.json
       THEN [key |-> <<>>, exc |-> "JSONDecodeError"]
       ELSE [key |-> IF file.exists THEN get(file.object, "AKAMAI_KEY") ELSE <<>>,
             exc |-> ""]

\* Control.key_data: the key, or the exception raised
key_data(env, file) ==
    LET key == get(env, "AKAMAI_KEY")
    IN IF key # <<>> THEN [key |-> key, exc |-> ""]
       ELSE IF file.exists /\ ~file.json
       THEN [key |-> <<>>, exc |-> "JSONDecodeError"]
       ELSE LET fallback == IF file.exists THEN get(file.object, "AKAMAI_KEY")
                            ELSE <<>>
            IN IF fallback = <<>>
               THEN [key |-> <<>>, exc |-> "RuntimeError"]
               ELSE [key |-> fallback, exc |-> ""]

\* Control.__add_key_to_agent
AddKey ==
    /\ pc = "add_key"
    /\ LET data == key_data(environ, secrets)
       IN IF data.exc # ""
          THEN /\ error' = data.exc
               /\ pc' = "except"
               /\ UNCHANGED <<procs, log>>
          ELSE \E returncode \in {0, 1}, output \in {"", "Identity added"} :
                 /\ procs' = Append(procs, Proc(<<"ssh-add", "-">>, data.key, returncode))
                 /\ IF returncode # 0
                    THEN /\ log' = Append(log, [level |-> "ERROR",
                                                msg |-> "failure adding SSH key to agent",
                                                n |-> count])
                         /\ error' = "RuntimeError"
                         /\ pc' = "except"
                    ELSE /\ log' = IF output # ""
                                   THEN Append(log, Info("ssh-add output"))
                                   ELSE log
                         /\ pc' = "rsync"
                         /\ UNCHANGED error
    /\ UNCHANGED <<argv, blobs, staging, before, environ, secrets, cached,
                   count, rmtrees, entry, stderr, exit_status>>

remote(host) == IF host = Host THEN "sshacs@media.example.net:media" ELSE "sshacs@:media"

\* Control.rsync with the two comparison flags exchanged.
rsync_exchanged(opts) ==
    LET check == IF opts.checksums THEN "--size-only" ELSE "--checksum"
    IN <<"rsync", "--delete", check, "-aze", "ssh", "../akamai/", remote(opts.host)>>

\* Control.rsync
rsync(opts) ==
    LET check == IF opts.checksums THEN "--checksum" ELSE "--size-only"
    IN <<"rsync", "--delete", check, "-aze", "ssh", "../akamai/", remote(opts.host)>>

\* run(self.rsync, check=True), the end of Control.sync and of Control.run.
\* rsync fails when ../akamai does not exist.
Rsync ==
    /\ pc = "rsync"
    /\ \E returncode \in {0, 23} :
         /\ returncode = 0 => staging.exists
         /\ procs' = Append(procs, Proc(rsync(argv), <<>>, returncode))
         /\ IF returncode # 0
            THEN /\ error' = "CalledProcessError"
                 /\ pc' = "except"
                 /\ UNCHANGED <<log, stderr, exit_status>>
            ELSE /\ log' = IF argv.staged THEN Append(log, Info("synced"))
                           ELSE Append(Append(log, Info("synced")), Info("processed"))
                 /\ stderr' = IF argv.verbose
                              THEN IF argv.staged THEN Append(stderr, "done")
                                   ELSE Append(Append(stderr, "done"), "total processing time")
                              ELSE stderr
                 /\ pc' = "exit"
                 /\ exit_status' = 0
                 /\ UNCHANGED error
    /\ UNCHANGED <<argv, blobs, staging, before, environ, secrets, cached,
                   count, rmtrees, entry>>

\* The handler of the main block: the exception is logged and the script
\* ends by running off its last line.
Except ==
    /\ pc = "except"
    /\ log' = Append(log, [level |-> "ERROR", msg |-> "sync failed", n |-> count])
    /\ stderr' = Write("sync failed")
    /\ pc' = "exit"
    /\ exit_status' = 0
    /\ UNCHANGED <<argv, blobs, staging, before, environ, secrets, cached,
                   count, rmtrees, entry, procs, error>>

Next ==
    \/ Run
    \/ StageEntry
    \/ StageDone
    \/ StartAgent
    \/ AddKey
    \/ Rsync
    \/ Except

Spec == Init /\ [][Next]_vars

(***************************************************************************)
(* Properties.                                                             *)
(***************************************************************************)

\* Control.stage ran to its end (it logged "staged %d files").
StageCompleted == \E i \in 1..Len(log) : log[i].msg = "staged"

\* The exception came out of the loop of Control.stage.
StageFailed ==
    /\ ~argv.staged
    /\ ~StageCompleted
    /\ error \notin {"", "SystemExit"}

Invoked(name) == \E i \in 1..Len(procs) : procs[i].argv[1] = name

NoKey ==
    /\ get(environ, "AKAMAI_KEY") = <<>>
    /\ \/ ~secrets.exists
       \/ ~secrets.json
       \/ get(secrets.object, "AKAMAI_KEY") = <<>>

\* n / d rounded to the nearest integer, a tie to the even one.
Round(n, d) ==
    LET q == n \div d
        r == n % d
    IN IF 2 * r > d \/ (2 * r = d /\ q % 2 = 1) THEN q + 1 ELSE q

\* C1: when the process has ended, its exit status is non-zero if an error
\* was raised and zero if none was, and an error raised by a phase has been
\* logged.
ExitStatusTellsFailure ==
    pc = "exit" =>
        /\ error = "" => exit_status = 0
        /\ error # "" => exit_status # 0
        /\ error \notin {"", "SystemExit"} =>
               \E i \in 1..Len(log) : log[i].msg = "sync failed"

\* C2: every rsync call comes after an ssh-add call that was given a
\* non-empty key and returned 0; with no key in the environment and none in
\* .secrets.json, rsync is never called.
TransferOnlyWithKey ==
    /\ \A i \in 1..Len(procs) :
          procs[i].argv[1] = "rsync" =>
              \E j \in 1..(i - 1) :
                  /\ procs[j].argv = <<"ssh-add", "-">>
                  /\ procs[j].returncode = 0
                  /\ procs[j].input # <<>>
    /\ NoKey => ~Invoked("rsync")

TransferWithFileKey ==
    /\ Invoked("rsync")
    /\ get(environ, "AKAMAI_KEY") = <<>>
    /\ procs[2].input = FileKey

\* C3: once the stage phase of a run without --staged has completed, every
\* file of the staging area was made in this run from an entry of ../blobs.
StagedOnlyFromBlobs ==
    (~argv.staged /\ StageCompleted) =>
        \A f \in staging.files :
            /\ f.run = "current"
            /\ \E i \in 1..Len(blobs) : blobs[i] = f.src

\* C4: with --staged the staging area stays as the run found it, nothing is
\* staged or counted, no staging property is computed, and a run that has
\* ended has run the sync phase.
SkipStagingLeavesArea ==
    argv.staged =>
        /\ staging = before
        /\ count = 0
        /\ rmtrees = 0
        /\ cached = {}
        /\ entry = 1
        /\ ~StageCompleted
        /\ pc = "exit" => Invoked("ssh-agent")

SkippedStagingSynced ==
    /\ argv.staged
    /\ pc = "exit"
    /\ before.exists
    /\ Len(blobs) > 0
    /\ Invoked("rsync")
    /\ error = ""

ArtifactDimensions ==
    \A f \in staging.files :
        (f.run = "current" /\ f.dir = "images") =>
            IF f.width # 0 /\ f.width < f.src.width
            THEN /\ f.w = f.width
                 /\ f.h = Round(f.width * f.src.height, f.src.width)
            ELSE /\ f.w = f.src.width
                 /\ f.h = f.src.height

\* C7: the run moves START, STAGE (only without --staged), SYNC, DONE; sync
\* begins only after the whole listing was staged; the commands are called
\* in the order ssh-agent, ssh-add, rsync, each at most once.
PhaseStep ==
    /\ <<pc, pc'>> \in
          { <<"start", "stage">>, <<"start", "sync">>, <<"start", "exit">>,
            <<"stage", "stage">>, <<"stage", "sync">>, <<"stage", "except">>,
            <<"sync", "add_key">>, <<"sync", "except">>,
            <<"add_key", "rsync">>, <<"add_key", "except">>,
            <<"rsync", "exit">>, <<"rsync", "except">>,
            <<"except", "exit">> }
    /\ (pc = "start" /\ pc' = "stage") => ~argv.staged
    /\ (pc = "start" /\ pc' = "sync") => argv.staged
    /\ (pc = "stage" /\ pc' = "sync") => entry > Len(blobs)
    /\ Len(procs') <= 3
    /\ \A i \in 1..Len(procs') :
          procs'[i].argv[1] = <<"ssh-agent", "ssh-add", "rsync">>[i]
    /\ (procs' # <<>> /\ ~argv.staged) => (StageCompleted' /\ entry' > Len(blobs))
    /\ (pc' = "exit" /\ error' = "") => Len(procs') = 3

\* C7: every step of a run keeps the order of the phases and of the commands.
PhaseOrder == [][PhaseStep]_vars

StagedThenSynced ==
    /\ ~argv.staged
    /\ pc = "exit"
    /\ error = ""
    /\ count = MaxBlobs

\* C8: when an entry fails in the stage phase, it is not counted, no later
\* entry is touched, what the earlier entries produced is still there, and
\* no command of the sync phase is called.
StageFailureAborts ==
    StageFailed =>
        /\ procs = <<>>
        /\ entry <= Len(blobs)
        /\ count = entry - 1
        /\ \A f \in staging.files :
              f.run = "current" => \E i \in 1..entry : blobs[i] = f.src
        /\ \A i \in 1..(entry - 1) :
              \A width \in (IF blobs[i].suffix = ".mp3" THEN {0} ELSE {0, 571, 750}) :
                  \E f \in staging.files :
                      /\ f.src = blobs[i]
                      /\ f.run = "current"
                      /\ f.dir = (IF blobs[i].suffix = ".mp3" THEN "audio" ELSE "images")
                      /\ f.doc_id = int(blobs[i].stem)
                      /\ f.width = width

SecondEntryFailed ==
    /\ StageFailed
    /\ pc = "exit"
    /\ entry = 2
    /\ before.exists
    /\ blobs[1].suffix = ".mp3"
    /\ blobs[2].suffix # ".mp3"
    /\ error = "OSError"

\* C9: once the stage phase has completed, ../akamai was removed if it was
\* there, at most once, and ../akamai/audio and ../akamai/images exist.
StageLeavesCleanArea ==
    /\ rmtrees <= 1
    /\ (~argv.staged /\ StageCompleted) =>
          /\ before.exists => rmtrees = 1
          /\ staging.exists
          /\ staging.dirs = {"audio", "images"}

\* C10: __start_ssh_agent raises nothing, whatever ssh-agent printed: the
\* run goes on to the ssh-add step.
StartAgentNeverRaises ==
    (Invoked("ssh-agent") /\ ~Invoked("ssh-add") /\ pc \in {"except", "exit"}) =>
        error \in {"RuntimeError", "JSONDecodeError"}

====
